---- MODULE Spec2Model ----
(***************************************************************************)
(* State-machine model of scraper/scrape_pracuj.py: the crawl of the       *)
(* listing pages per phrase, the per-offer enrichment, the merge against   *)
(* the master CSV, the ranking/export of the new offers and the e-mail     *)
(* notification.                                                           *)
(*                                                                         *)
(* Encoding of Python/pandas values.  Text cells are strings; "None" is    *)
(* Python's None, "NaN" a missing pandas value, "Absent" a key a dict does *)
(* not hold.  The three date columns hold text in the source; here such a  *)
(* text is written as the number it denotes (published_iso, published: a   *)
(* day number; first_seen: a tick, TicksPerDay ticks to the day) and the   *)
(* conversions text -> Timestamp -> text are the operators to_datetime and *)
(* strftime_date below.  Columns the claims never read (location, source,  *)
(* valid_through) are left out.                                            *)
(***************************************************************************)
EXTENDS Integers, Sequences, FiniteSets, TLC

\* ---------------------------------------------------------------- bounds
MaxRuns == 2
MaxRows == 2
MaxPerPage == 2
\* max_pages of a full run (80 in the source) and of an incremental run
\* (20 in the source), scaled down.
PagesFull == 3
PagesIncr == 2

TicksPerDay == MaxRows + 1

\* ---------------------------------------------------------------- values
None == "None"
NaN == "NaN"
Absent == "Absent"
NaNDate == 0 - 1
AbsentDate == 0 - 2
EmptyDate == 0 - 3

DateCols == {"published", "published_iso", "first_seen"}
TextCols == {"job_id", "title", "url", "company", "employer_name", "industry"}
AllCols == TextCols \cup DateCols

\* load_master's column list for a missing file (those the model keeps).
MasterSchema == AllCols

IsAbsent(d, c) == IF c \in DateCols THEN d[c] = AbsentDate ELSE d[c] = Absent
\* pandas isna / notna on a cell.
IsNA(d, c) == IF c \in DateCols THEN d[c] = NaNDate ELSE d[c] \in {None, NaN}

\* ------------------------------------------------------------ environment
\* keywords.json (the phrases of the module docstring).
Keywords == <<"chief accountant", "glowna ksiegowa">>

\* The <a href=... > elements the site can serve on a listing page.
Anchor1 == [href |-> "/praca/chief-accountant,oferta,1000001", title |-> "Chief Accountant"]
Anchor2 == [href |-> "/praca/chief-accountant,oferta,1000001?s=2", title |-> "Chief Accountant"]
Anchor3 == [href |-> "/praca/glowna-ksiegowa-oferta", title |-> "Glowna Ksiegowa / Chief Accountant"]
Anchor4 == [href |-> "/praca/kierowca,oferta,1000002", title |-> "Kierowca"]
Anchors == <<Anchor1, Anchor2, Anchor3, Anchor4>>

RECURSIVE PickAnchors(_, _)
PickAnchors(S, i) ==
    IF i > Len(Anchors) THEN <<>>
    ELSE (IF i \in S THEN <<Anchors[i]>> ELSE <<>>) \o PickAnchors(S, i + 1)

\* What fetch_page can return for a listing URL: None, or a page body.
ListingResponses ==
    {[ok |-> FALSE, anchors |-> <<>>]} \cup
    {[ok |-> TRUE, anchors |-> PickAnchors(S, 1)] :
        S \in {T \in SUBSET (1..Len(Anchors)) : Cardinality(T) <= MaxPerPage}}

\* What the detail page of an offer can be: fetch_page returns None ("fail"),
\* the parse raises ("raise"), or a page with an employer and perhaps a
\* JSON-LD datePosted (a day).
PostedDays == {1, 2}
DetailResponses ==
    {[status |-> "fail", employer |-> None, datePosted |-> NaNDate],
     [status |-> "raise", employer |-> None, datePosted |-> NaNDate],
     [status |-> "ok", employer |-> "ACME", datePosted |-> NaNDate]} \cup
    {[status |-> "ok", employer |-> "ACME", datePosted |-> d] : d \in PostedDays}

\* ------------------------------------------------------------- the listing
\* re.search(r"oferta.*?(\d{7,})", href)
ExtractJobId(href) ==
    CASE href = "/praca/chief-accountant,oferta,1000001" -> "1000001"
      [] href = "/praca/chief-accountant,oferta,1000001?s=2" -> "1000001"
      [] href = "/praca/kierowca,oferta,1000002" -> "1000002"
      [] OTHER -> None

\* re.compile(keyword, re.IGNORECASE).search(title)
TitleMatches(keyword, title) ==
    CASE keyword = "chief accountant" ->
            title \in {"Chief Accountant", "Glowna Ksiegowa / Chief Accountant"}
      [] keyword = "glowna ksiegowa" ->
            title \in {"Glowna Ksiegowa / Chief Accountant"}
      [] OTHER -> FALSE

\* The dict parse_list_page builds for one anchor (href starts with "/").
Stub(a) ==
    [job_id |-> ExtractJobId(a.href), title |-> a.title,
     url |-> "https://www.pracuj.pl" \o a.href, company |-> None,
     employer_name |-> Absent, industry |-> Absent,
     published |-> AbsentDate, published_iso |-> AbsentDate,
     first_seen |-> AbsentDate]

\* o.get("job_id") or o["url"]
ListKey(o) == IF o.job_id # None THEN o.job_id ELSE o.url

\* uniq[k] = o : a known key keeps its place and takes the new value.
DictPut(uniq, o) ==
    IF \E i \in 1..Len(uniq) : ListKey(uniq[i]) = ListKey(o)
    THEN [i \in 1..Len(uniq) |-> IF ListKey(uniq[i]) = ListKey(o) THEN o ELSE uniq[i]]
    ELSE Append(uniq, o)

RECURSIVE Uniq(_, _)
Uniq(offers, uniq) ==
    IF offers = <<>> THEN uniq
    ELSE Uniq(Tail(offers), DictPut(uniq, Head(offers)))

parse_list_page(anchors) ==
    Uniq([i \in 1..Len(anchors) |-> Stub(anchors[i])], <<>>)

RECURSIVE SelectSeq2(_, _)
SelectSeq2(s, kw) ==
    IF s = <<>> THEN <<>>
    ELSE (IF TitleMatches(kw, Head(s).title) THEN <<Head(s)>> ELSE <<>>)
         \o SelectSeq2(Tail(s), kw)

KeysOf(s) == {ListKey(s[i]) : i \in 1..Len(s)}

\* .fillna("") of a text cell.
FillNa(v) == IF v \in {None, NaN} THEN "" ELSE v

\* job_id.fillna("") + "|" + url.fillna("")
MergeKey(r) == FillNa(r.job_id) \o "|" \o FillNa(r.url)

\* ------------------------------------------------------------------ state
VARIABLES
    runs,        \* runs started so far
    pc,          \* where the current run is
    full,        \* run_scrape's argument
    kw,          \* index of the phrase being crawled
    max_pages,   \* iterate_pages_for_keyword: max_pages
    page,        \* iterate_pages_for_keyword: page
    out,         \* iterate_pages_for_keyword: out
    hist,        \* the responses fetch_page gave for this phrase's listing
                 \* pages (recorded under SpecPages only)
    idx,         \* position of the enrichment loop in out
    all_rows,    \* run_scrape: all_rows
    df_new, master, new_only, combined, before,
    file_exists, file,    \* MASTER_CSV on disk
    file_before,          \* MASTER_CSV as it was when the run started
    wpos,                 \* rows of combined that to_csv has written
    export,               \* the NEW sheet of the daily xlsx, once written
    report,               \* the rows of the HTML table, once built
    env,                  \* the environment variables email_new_offers_xlsx read
    served,               \* stubs the site has served so far, over all runs
    sendgrid, smtp,       \* "none", "ok" or "failed": each transport's attempt
    rc,                   \* run_scrape's return value ("none" until it returns)
    error,                \* the exception that ended the run ("" if none)
    prev_new,             \* (job_id, url) pairs of df_new in the last merge saved
    past_delta            \* job_id|url keys of the new_only of the runs before this one

crawl_vars == <<kw, max_pages, page, out, hist, idx, all_rows>>
frame_vars == <<df_new, master, new_only, combined, before>>
disk_vars == <<file_exists, file, file_before, wpos>>
mail_vars == <<env, sendgrid, smtp>>
vars == <<runs, pc, full, crawl_vars, frame_vars, disk_vars, export, report,
          mail_vars, rc, error, prev_new, served, past_delta>>

EmptyFrame == [cols |-> {}, rows |-> <<>>]
NoExport == [written |-> FALSE, rows |-> <<>>]
NoReport == [built |-> FALSE, rows |-> <<>>]
NoEnv == [to |-> FALSE, api_key |-> FALSE, smtp_cfg |-> FALSE]

Init ==
    /\ runs = 0
    /\ pc = "idle"
    /\ full = FALSE
    /\ kw = 1 /\ max_pages = 0 /\ page = 1 /\ out = <<>> /\ hist = <<>> /\ idx = 1
    /\ all_rows = <<>>
    /\ df_new = EmptyFrame /\ master = EmptyFrame
    /\ new_only = EmptyFrame /\ combined = EmptyFrame
    /\ before = 0
    /\ file_exists = FALSE /\ file = EmptyFrame /\ file_before = EmptyFrame
    /\ wpos = 0
    /\ export = NoExport /\ report = NoReport
    /\ env = NoEnv /\ sendgrid = "none" /\ smtp = "none"
    /\ rc = "none" /\ error = ""
    /\ prev_new = <<>>
    /\ served = 0
    /\ past_delta = {}

\* ------------------------------------------------------------ __main__
\* A new invocation of the script: full = args.full or first_run.
StartRun ==
    /\ pc \in {"idle", "done", "crashed", "killed"}
    /\ runs < MaxRuns
    /\ runs' = runs + 1
    /\ \E args_full \in BOOLEAN : full' = (args_full \/ ~file_exists)
    /\ pc' = "crawl"
    /\ max_pages' = (IF full' THEN PagesFull ELSE PagesIncr)
    /\ kw' = 1 /\ page' = 1 /\ out' = <<>> /\ hist' = <<>> /\ idx' = 1
    /\ all_rows' = <<>>
    /\ df_new' = EmptyFrame /\ master' = EmptyFrame
    /\ new_only' = EmptyFrame /\ combined' = EmptyFrame
    /\ before' = 0
    /\ file_before' = (IF file_exists THEN file ELSE EmptyFrame)
    /\ wpos' = 0
    /\ export' = NoExport /\ report' = NoReport
    /\ env' = NoEnv /\ sendgrid' = "none" /\ smtp' = "none"
    /\ rc' = "none" /\ error' = ""
    /\ past_delta' = past_delta \cup
           {MergeKey(new_only.rows[i]) : i \in 1..Len(new_only.rows)}
    /\ UNCHANGED <<file_exists, file, prev_new, served>>

\* ------------------------------------------- iterate_pages_for_keyword
\* Mutant: the "nothing new" break is missing.
no_repetition_break(html, batch0, new_keys, old_keys, pg) ==
    ~html.ok \/ batch0 = <<>>

\* The three breaks of the while loop: the fetch failed, the page holds no
\* offer link, or (after page 1) no matching key is new.
stops_pagination(html, batch0, new_keys, old_keys, pg) ==
    ~html.ok \/ batch0 = <<>> \/ (new_keys \subseteq old_keys /\ pg > 1)

\* One turn of the while loop.  Over all runs the site serves at most
\* MaxRows stubs that get accumulated.
ListingStep(traced) ==
    /\ pc = "crawl"
    /\ page <= max_pages
    /\ \E html \in ListingResponses :
        LET batch0 == parse_list_page(html.anchors)
            batch == SelectSeq2(batch0, Keywords[kw])
            new_keys == KeysOf(batch)
            old_keys == KeysOf(out)
        IN  /\ hist' = (IF traced THEN Append(hist, html) ELSE hist)
            /\ IF stops_pagination(html, batch0, new_keys, old_keys, page)
               THEN /\ pc' = "returned"
                    /\ UNCHANGED <<out, page, served>>
               ELSE /\ served + Len(batch) <= MaxRows
                    /\ out' = out \o batch
                    /\ page' = page + 1
                    /\ served' = served + Len(batch)
                    /\ UNCHANGED pc
    /\ UNCHANGED <<runs, full, kw, max_pages, idx, all_rows, frame_vars,
                   disk_vars, export, report, mail_vars, rc, error, prev_new,
                   past_delta>>

FetchListing == ListingStep(FALSE)

\* The while condition fails: page > max_pages.
PagesExhausted ==
    /\ pc = "crawl"
    /\ page > max_pages
    /\ pc' = "returned"
    /\ UNCHANGED <<runs, full, crawl_vars, frame_vars, disk_vars,
                   export, report, mail_vars, rc, error, prev_new, served, past_delta>>

\* ------------------------------------------------------------ run_scrape
\* offers = iterate_pages_for_keyword(...) has returned; the for loop over
\* offers starts.
BeginEnrich ==
    /\ pc = "returned"
    /\ pc' = "enrich"
    /\ idx' = 1
    /\ UNCHANGED <<runs, full, kw, max_pages, page, out, hist, all_rows, frame_vars, disk_vars,
                   export, report, mail_vars, rc, error, prev_new, served, past_delta>>

\* dt.datetime.now(...).strftime(...): each run is on a day of its own and
\* every offer of a run is stamped a tick later than the one before.
NowText == (runs + 1) * TicksPerDay + Len(all_rows)

\* enrich_offer_details: a failed fetch returns the offer as it is; so does
\* an exception, which run_scrape swallows.
enrich_offer_details(offer, resp) ==
    IF resp.status # "ok" THEN offer
    ELSE LET o1 == [offer EXCEPT !.employer_name = resp.employer,
                                 !.industry = None]
         IN  IF resp.datePosted # NaNDate
             THEN [o1 EXCEPT !.published_iso = resp.datePosted,
                             !.published = resp.datePosted]
             ELSE o1

\* One turn of "for off in offers".
Enrich ==
    /\ pc = "enrich"
    /\ idx <= Len(out)
    /\ \E resp \in DetailResponses :
        LET off == [out[idx] EXCEPT !.first_seen = NowText]
        IN  all_rows' = Append(all_rows, enrich_offer_details(off, resp))
    /\ idx' = idx + 1
    /\ UNCHANGED <<runs, pc, full, kw, max_pages, page, out, hist, frame_vars, disk_vars,
                   export, report, mail_vars, rc, error, prev_new, served, past_delta>>

\* The offers of this phrase are done: the next phrase, or the end of the
\* for loop over keywords.
NextKeyword ==
    /\ pc = "enrich"
    /\ idx > Len(out)
    /\ IF kw < Len(Keywords)
       THEN /\ kw' = kw + 1
            /\ pc' = "crawl"
       ELSE /\ pc' = "build"
            /\ UNCHANGED kw
    /\ page' = 1 /\ out' = <<>> /\ idx' = 1
    /\ UNCHANGED <<runs, full, max_pages, hist, all_rows, frame_vars, disk_vars,
                   export, report, mail_vars, rc, error, prev_new, served, past_delta>>

\* -------------------------------------------------------------- pandas
\* pd.DataFrame(list of dicts): a column for every key some dict holds; a
\* dict without the key gets NaN there.
ToCell(d, c) ==
    IF IsAbsent(d, c) THEN (IF c \in DateCols THEN NaNDate ELSE NaN) ELSE d[c]

DataFrame(dicts) ==
    [cols |-> {c \in AllCols : \E i \in 1..Len(dicts) : ~IsAbsent(dicts[i], c)},
     rows |-> [i \in 1..Len(dicts) |-> [c \in AllCols |-> ToCell(dicts[i], c)]]]

\* Missing values of the key columns are equal to each other for
\* drop_duplicates.
NAEq(a, b) == (a \in {None, NaN} /\ b \in {None, NaN}) \/ a = b

RECURSIVE Pick(_, _, _)
\* The elements of s at the positions I, from position i on, in order.
Pick(s, I, i) ==
    IF i > Len(s) THEN <<>>
    ELSE (IF i \in I THEN <<s[i]>> ELSE <<>>) \o Pick(s, I, i + 1)

\* Boolean indexing: the rows of s for which Keep(s, i) holds.
KeepRows(s, Keep(_, _)) == Pick(s, {i \in 1..Len(s) : Keep(s, i)}, 1)

FirstByIdUrl(s, i) ==
    ~\E j \in 1..(i - 1) : NAEq(s[j].job_id, s[i].job_id) /\ NAEq(s[j].url, s[i].url)

HasTitleAndUrl(s, i) == ~IsNA(s[i], "title") /\ ~IsNA(s[i], "url")

FirstByKey(s, i) == ~\E j \in 1..(i - 1) : MergeKey(s[j]) = MergeKey(s[i])

\* Mutant: pd.concat without drop_duplicates.
dedupe_concat_no_drop(m, n) ==
    [cols |-> m.cols \cup n.cols, rows |-> m.rows \o n.rows]

LastByKey(s, i) == ~\E j \in (i + 1)..Len(s) : MergeKey(s[j]) = MergeKey(s[i])

\* Mutant: drop_duplicates(keep="last").
dedupe_concat_keep_last(m, n) ==
    [cols |-> m.cols \cup n.cols,
     rows |-> KeepRows(m.rows \o n.rows, LastByKey)]

dedupe_concat(m, n) ==
    [cols |-> m.cols \cup n.cols,
     rows |-> KeepRows(m.rows \o n.rows, FirstByKey)]

\* to_csv writes a missing value as the empty field; read_csv(dtype=str)
\* reads the empty field as NaN and every other field as its text.
CsvCell(r, c) ==
    IF c \in DateCols THEN (IF r[c] = NaNDate THEN EmptyDate ELSE r[c])
    ELSE FillNa(r[c])

to_csv_row(r) == [c \in AllCols |-> CsvCell(r, c)]

ReadCell(r, c) ==
    IF c \in DateCols THEN (IF r[c] = EmptyDate THEN NaNDate ELSE r[c])
    ELSE (IF r[c] = "" THEN NaN ELSE r[c])

read_csv(f) ==
    [cols |-> f.cols,
     rows |-> [i \in 1..Len(f.rows) |-> [c \in AllCols |-> ReadCell(f.rows[i], c)]]]

load_master ==
    IF file_exists THEN read_csv(file)
    ELSE [cols |-> MasterSchema, rows |-> <<>>]

\* ------------------------------------------------- run_scrape: the merge
Crash(what) ==
    /\ pc' = "crashed"
    /\ error' = what

\* df_new = pd.DataFrame(all_rows).drop_duplicates(...), then the
\* title/url filter.  A frame without rows has no columns: df_new["title"]
\* raises KeyError.
BuildFrame ==
    /\ pc = "build"
    /\ IF all_rows = <<>>
       THEN /\ Crash("KeyError: 'title'")
            /\ UNCHANGED df_new
       ELSE LET df == DataFrame(all_rows)
                dd == KeepRows(df.rows, FirstByIdUrl)
            IN  /\ df_new' = [cols |-> df.cols, rows |-> KeepRows(dd, HasTitleAndUrl)]
                /\ pc' = "merge"
                /\ UNCHANGED error
    /\ UNCHANGED <<runs, full, crawl_vars, master, new_only, combined, before,
                   disk_vars, export, report, mail_vars, rc, prev_new, served, past_delta>>

\* Mutant: the filter against the loaded master keeps every fresh row.
NotInMaster_keep_all(s, i) == TRUE

NotInMaster(s, i) ==
    ~\E j \in 1..Len(load_master.rows) : MergeKey(load_master.rows[j]) = MergeKey(s[i])

IdUrlPairs(rows) == {<<FillNa(rows[i].job_id), rows[i].url>> : i \in 1..Len(rows)}

\* master = load_master() ... added = len(combined) - before
Merge ==
    /\ pc = "merge"
    /\ master' = load_master
    /\ before' = Len(load_master.rows)
    /\ new_only' = [cols |-> df_new.cols,
                    rows |-> IF load_master.rows = <<>> THEN df_new.rows
                             ELSE KeepRows(df_new.rows, NotInMaster)]
    /\ combined' = dedupe_concat(load_master, df_new)
    /\ pc' = "save"
    /\ UNCHANGED <<runs, full, crawl_vars, df_new, disk_vars, export, report,
                   mail_vars, rc, error, prev_new, served, past_delta>>

\* save_master: df.to_csv(MASTER_CSV) opens the file for writing, which
\* empties it, ...
SaveOpen ==
    /\ pc = "save"
    /\ file_exists' = TRUE
    /\ file' = [cols |-> combined.cols, rows |-> <<>>]
    /\ wpos' = 0
    /\ pc' = "saving"
    /\ UNCHANGED <<runs, full, crawl_vars, frame_vars, file_before, export,
                   report, mail_vars, rc, error, prev_new, served, past_delta>>

\* ... writes the rows ...
SaveRow ==
    /\ pc = "saving"
    /\ wpos < Len(combined.rows)
    /\ file' = [file EXCEPT !.rows = Append(@, to_csv_row(combined.rows[wpos + 1]))]
    /\ wpos' = wpos + 1
    /\ UNCHANGED <<runs, pc, full, crawl_vars, frame_vars, file_exists,
                   file_before, export, report, mail_vars, rc, error, prev_new, served, past_delta>>

\* ... and closes it.
SaveClose ==
    /\ pc = "saving"
    /\ wpos = Len(combined.rows)
    /\ pc' = "rank"
    /\ prev_new' = <<IdUrlPairs(df_new.rows)>>
    /\ UNCHANGED <<runs, full, crawl_vars, frame_vars, disk_vars, export,
                   report, mail_vars, rc, error, served, past_delta>>

\* ---------------------------------------------------------------- dates
\* A pandas Timestamp: an instant t (in ticks) that is tz-aware or naive;
\* NaT is the missing one.
NaT == [t |-> NaNDate, aware |-> FALSE]
NoDatetime == [t |-> AbsentDate, aware |-> FALSE]

\* pd.to_datetime(text, errors="coerce") of a "YYYY-MM-DD" text: midnight of
\* that day, naive; NaN gives NaT.
to_datetime_iso(text) ==
    IF text < 0 THEN NaT ELSE [t |-> text * TicksPerDay, aware |-> FALSE]

\* pd.to_datetime(text, errors="coerce") of a "%Y-%m-%d %H:%M:%S%z" text: the
\* instant, tz-aware; a missing or empty text gives NaT.
to_datetime_stamp(text) ==
    IF text < 0 THEN NaT ELSE [t |-> text, aware |-> TRUE]

\* ts.strftime("%Y-%m-%d")
strftime_date(ts) == ts.t \div TicksPerDay

\* parse_pl_date of the "published" cell.  The only texts that get here are
\* None/"" (-> None) and enrich_offer_details' "%d %m %Y" text, which has
\* no month name, so it falls to the day-first pandas parse.
parse_pl_date(text) ==
    IF text < 0 THEN NoDatetime ELSE [t |-> text * TicksPerDay, aware |-> FALSE]

\* r.get(c) on a row of a frame: None when the frame has no such column.
RowGet(cols, r, c) == IF c \in cols THEN r[c] ELSE AbsentDate

\* Python truth of a date cell: None and "" are false; NaN is true.
Truthy(v) == v \notin {AbsentDate, EmptyDate}

\* Mutant: the sort key is first_seen, whatever the offer's own dates.
parse_any_date_row_first_seen(cols, r) ==
    to_datetime_stamp(RowGet(cols, r, "first_seen"))

\* _parse_any_date_row (the same text in run_scrape and build_html_summary).
parse_any_date_row(cols, r) ==
    IF Truthy(RowGet(cols, r, "published_iso"))
    THEN to_datetime_iso(RowGet(cols, r, "published_iso"))
    ELSE LET dt_pub == parse_pl_date(RowGet(cols, r, "published"))
         IN  IF dt_pub # NoDatetime THEN dt_pub
             ELSE to_datetime_stamp(RowGet(cols, r, "first_seen"))

\* The lambda that fills _date_str: a day text, NaN, or "".
date_str(cols, r) ==
    IF Truthy(RowGet(cols, r, "published_iso"))
    THEN RowGet(cols, r, "published_iso")
    ELSE LET dt_pub == parse_pl_date(RowGet(cols, r, "published"))
             fs == to_datetime_stamp(RowGet(cols, r, "first_seen"))
         IN  IF dt_pub # NoDatetime THEN strftime_date(dt_pub)
             ELSE IF fs # NaT THEN strftime_date(fs)
             ELSE EmptyDate

\* Comparing a tz-naive with a tz-aware Timestamp raises TypeError.
Incomparable(keys) ==
    \E i, j \in 1..Len(keys) :
        keys[i] # NaT /\ keys[j] # NaT /\ keys[i].aware # keys[j].aware

Permutations1(n) ==
    {p \in [1..n -> 1..n] : \A i, j \in 1..n : i # j => p[i] # p[j]}

\* a may stand before b under ascending=False, na_position="last".
DescOrder(a, b) == IF a = NaT THEN b = NaT ELSE (b = NaT \/ a.t >= b.t)

\* sort_values(by="_sort", ascending=False, na_position="last"): the default
\* sort is not stable, so equal keys may come out in any order.
sort_values(keys) ==
    {p \in Permutations1(Len(keys)) :
        \A i, j \in 1..Len(keys) : i < j => DescOrder(keys[p[i]], keys[p[j]])}

Reorder(rows, p) == [i \in 1..Len(rows) |-> rows[p[i]]]

\* ---------------------------------------- run_scrape: ranking and export
\* export["Nazwa firmy"]: employer_name, else company.
ExportRow(cols, r) ==
    [firma |-> IF FillNa(r.employer_name) = "" THEN r.company ELSE r.employer_name,
     title |-> r.title,
     link |-> r.url,
     date |-> date_str(cols, r)]

\* The sort of the new offers and the daily xlsx.  export["employer_name"]
\* raises KeyError when no offer of the run was enriched.
RankAndExport ==
    /\ pc = "rank"
    /\ LET keys == [i \in 1..Len(new_only.rows) |->
                        parse_any_date_row(new_only.cols, new_only.rows[i])]
       IN  IF Incomparable(keys)
           THEN /\ Crash("TypeError: tz-naive and tz-aware")
                /\ UNCHANGED <<new_only, export>>
           ELSE \E p \in sort_values(keys) :
                /\ new_only' = [new_only EXCEPT !.rows = Reorder(@, p)]
                /\ IF "employer_name" \notin new_only.cols
                   THEN /\ Crash("KeyError: 'employer_name'")
                        /\ UNCHANGED export
                   ELSE /\ export' = [written |-> TRUE,
                                        rows |-> [i \in 1..Len(new_only.rows) |->
                                            ExportRow(new_only.cols, new_only.rows[p[i]])]]
                        /\ pc' = "email"
                        /\ UNCHANGED error
    /\ UNCHANGED <<runs, full, crawl_vars, df_new, master, combined, before,
                   disk_vars, report, mail_vars, rc, prev_new, served, past_delta>>

\* ------------------------------------------------- build_html_summary
\* work = df.copy().fillna("") with the missing columns added as "".
HtmlCell(cols, r, c) ==
    IF c \in DateCols
    THEN (IF c \notin cols \/ r[c] = NaNDate THEN EmptyDate ELSE r[c])
    ELSE (IF c \notin cols THEN "" ELSE FillNa(r[c]))

HtmlWork(df) ==
    [i \in 1..Len(df.rows) |-> [c \in AllCols |-> HtmlCell(df.cols, df.rows[i], c)]]

\* Python's a or b or c on text cells.
Or3(a, b, c) == IF a # "" THEN a ELSE IF b # "" THEN b ELSE c

HtmlRow(r) ==
    [company |-> Or3(r.employer_name, r.company, "-"),
     title |-> r.title,
     url |-> r.url,
     date_s |-> r.published_iso]

\* --------------------------------------------- email_new_offers_xlsx
\* The start of the function: the recipients, then the HTML body.
EmailBegin ==
    /\ pc = "email"
    /\ \E to \in BOOLEAN, api_key \in BOOLEAN :
        /\ to \/ ~api_key
        /\ env' = [env EXCEPT !.to = to, !.api_key = api_key]
        /\ IF ~to
           THEN /\ pc' = "finish"
                /\ UNCHANGED <<report, error>>
           ELSE LET work == HtmlWork(new_only)
                    keys == [i \in 1..Len(work) |-> parse_any_date_row(AllCols, work[i])]
                IN  IF Incomparable(keys)
                    THEN /\ Crash("TypeError: tz-naive and tz-aware")
                         /\ UNCHANGED report
                    ELSE \E p \in sort_values(keys) :
                         /\ report' = [built |-> TRUE,
                                        rows |-> [i \in 1..Len(work) |-> HtmlRow(work[p[i]])]]
                         /\ pc' = IF api_key THEN "sendgrid" ELSE "smtp"
                         /\ UNCHANGED error
    /\ UNCHANGED <<runs, full, crawl_vars, frame_vars, disk_vars, export,
                   sendgrid, smtp, rc, prev_new, served, past_delta>>

\* Mutant: no return after a successful sg.send.
SendGridAttempt_no_return ==
    /\ pc = "sendgrid"
    /\ \E sent \in BOOLEAN : sendgrid' = IF sent THEN "ok" ELSE "failed"
    /\ pc' = "smtp"
    /\ UNCHANGED <<runs, full, crawl_vars, frame_vars, disk_vars, export,
                   report, env, smtp, rc, error, prev_new, served, past_delta>>

\* if api_key: try: ... sg.send(message); return   except: print(...)
SendGridAttempt ==
    /\ pc = "sendgrid"
    /\ \E sent \in BOOLEAN :
        IF sent
        THEN sendgrid' = "ok" /\ pc' = "finish"
        ELSE sendgrid' = "failed" /\ pc' = "smtp"
    /\ UNCHANGED <<runs, full, crawl_vars, frame_vars, disk_vars, export,
                   report, env, smtp, rc, error, prev_new, served, past_delta>>

\* The SMTP settings are read here, after the SendGrid block.  They are
\* set: try: ... sendmail; return   except: print(...), then the last print.
SmtpAttempt ==
    /\ pc = "smtp"
    /\ env' = [env EXCEPT !.smtp_cfg = TRUE]
    /\ \E sent \in BOOLEAN : smtp' = IF sent THEN "ok" ELSE "failed"
    /\ pc' = "finish"
    /\ UNCHANGED <<runs, full, crawl_vars, frame_vars, disk_vars, export,
                   report, sendgrid, rc, error, prev_new, served, past_delta>>

\* The SMTP settings are not set: the last print, and the function returns.
NoSmtp ==
    /\ pc = "smtp"
    /\ env.smtp_cfg = FALSE
    /\ pc' = "finish"
    /\ UNCHANGED <<runs, full, crawl_vars, frame_vars, disk_vars, export,
                   report, mail_vars, rc, error, prev_new, served, past_delta>>

\* print("[DONE] ..."); return 0
Finish ==
    /\ pc = "finish"
    /\ rc' = "0"
    /\ pc' = "done"
    /\ UNCHANGED <<runs, full, crawl_vars, frame_vars, disk_vars, export,
                   report, mail_vars, error, prev_new, served, past_delta>>

Next ==
    \/ StartRun
    \/ FetchListing
    \/ PagesExhausted
    \/ BeginEnrich
    \/ Enrich
    \/ NextKeyword
    \/ BuildFrame
    \/ Merge
    \/ SaveOpen
    \/ SaveRow
    \/ SaveClose
    \/ RankAndExport
    \/ EmailBegin
    \/ SendGridAttempt
    \/ SmtpAttempt
    \/ NoSmtp
    \/ Finish

Spec == Init /\ [][Next]_vars

\* The process is killed (power loss, SIGKILL, a cancelled CI job) at any
\* point of a run.
Kill ==
    /\ pc \notin {"idle", "done", "crashed", "killed"}
    /\ pc' = "killed"
    /\ UNCHANGED <<runs, full, crawl_vars, frame_vars, disk_vars, export,
                   report, mail_vars, rc, error, prev_new, served, past_delta>>

NextCrash == Next \/ Kill

SpecCrash == Init /\ [][NextCrash]_vars

\* iterate_pages_for_keyword on its own: called for any phrase with any
\* max_pages, every response of fetch_page recorded in hist.
InitPages ==
    /\ runs = 1
    /\ pc = "crawl"
    /\ full = FALSE
    /\ kw \in 1..Len(Keywords)
    /\ max_pages \in 0..PagesFull
    /\ page = 1 /\ out = <<>> /\ hist = <<>> /\ idx = 1
    /\ all_rows = <<>>
    /\ df_new = EmptyFrame /\ master = EmptyFrame
    /\ new_only = EmptyFrame /\ combined = EmptyFrame
    /\ before = 0
    /\ file_exists = FALSE /\ file = EmptyFrame /\ file_before = EmptyFrame
    /\ wpos = 0
    /\ export = NoExport /\ report = NoReport
    /\ env = NoEnv /\ sendgrid = "none" /\ smtp = "none"
    /\ rc = "none" /\ error = ""
    /\ prev_new = <<>>
    /\ served = 0
    /\ past_delta = {}

FetchListingTraced == ListingStep(TRUE)

NextPages == FetchListingTraced \/ PagesExhausted

SpecPages == InitPages /\ [][NextPages]_vars

\* ================================================================ claims
\* An offer's identity: its job id when one was extracted, else its link.
Identity(r) == IF IsNA(r, "job_id") THEN r.url ELSE r.job_id

Identities(rows) == {Identity(rows[i]) : i \in 1..Len(rows)}

\* The rows to_csv writes for a frame.
CsvRows(df) == [i \in 1..Len(df.rows) |-> to_csv_row(df.rows[i])]

\* The run has written the merged corpus to MASTER_CSV.
Saved ==
    \/ pc \in {"rank", "email", "sendgrid", "smtp", "finish", "done"}
    \/ (pc = "crashed" /\ error # "KeyError: 'title'")

\* C1: Merge is idempotent.  When a run's df_new holds the same (job_id, url)
\* pairs as the df_new of the merge saved before it, its Delta is empty, the
\* merged corpus is as long as the loaded one, and the file written holds as
\* many records as the file the run started from.
C1_MergeIdempotent ==
    (pc \in {"save", "saving"} /\ prev_new = <<IdUrlPairs(df_new.rows)>>)
        => /\ new_only.rows = <<>>
           /\ Len(combined.rows) = before
           /\ before = Len(file_before.rows)
           /\ (pc = "saving" /\ wpos = Len(combined.rows)
                  => Len(file.rows) = Len(file_before.rows))

C1_Witness ==
    /\ pc = "saving" /\ wpos = Len(combined.rows)
    /\ prev_new = <<IdUrlPairs(df_new.rows)>>
    /\ new_only.rows = <<>>
    /\ Len(df_new.rows) >= 1
    /\ Len(file.rows) = Len(file_before.rows)

\* C2: Identity uniqueness.  No two distinct records of the merged corpus
\* share an identity (job id if present, else link).
C2_IdentityUnique ==
    \A i, j \in 1..Len(combined.rows) :
        i # j => Identity(combined.rows[i]) # Identity(combined.rows[j])

\* C3: The Delta is exactly the fresh offers whose identity is absent from
\* the loaded corpus: none of its entries has an identity of the loaded
\* corpus, every fresh offer with an absent identity is in it, and no two of
\* its entries share an identity.
C3_DeltaExact ==
    pc \in {"save", "saving"} =>
        /\ \A i \in 1..Len(new_only.rows) :
               Identity(new_only.rows[i]) \notin Identities(master.rows)
        /\ \A i \in 1..Len(df_new.rows) :
               Identity(df_new.rows[i]) \notin Identities(master.rows)
                   => \E j \in 1..Len(new_only.rows) : new_only.rows[j] = df_new.rows[i]
        /\ \A i, j \in 1..Len(new_only.rows) :
               i # j => Identity(new_only.rows[i]) # Identity(new_only.rows[j])

\* C4: The corpus is append-only and first_seen is immutable.  Every record
\* of the corpus a run loaded is in the corpus the run saved, at the same
\* place and with every field (first_seen too) unchanged; the run only adds
\* records after them.
C4_AppendOnly ==
    Saved =>
        /\ file_exists
        /\ Len(master.rows) <= Len(file.rows)
        /\ \A i \in 1..Len(master.rows) : read_csv(file).rows[i] = master.rows[i]

\* A saved run that acquired again, with a later first_seen, an offer the
\* loaded corpus held.
C4_Witness ==
    /\ pc = "done"
    /\ \E i \in 1..Len(master.rows), j \in 1..Len(df_new.rows) :
          /\ MergeKey(master.rows[i]) = MergeKey(df_new.rows[j])
          /\ df_new.rows[j].first_seen > master.rows[i].first_seen
          /\ read_csv(file).rows[i].first_seen = master.rows[i].first_seen

\* A date the report shows: a day, or nothing (NaN, "").
Unresolved(d) == d < 0

RankedDescending(dates) ==
    \A i, j \in 1..Len(dates) :
        i < j => Unresolved(dates[j]) \/ (~Unresolved(dates[i]) /\ dates[i] >= dates[j])

PageBatch(k) == SelectSeq2(parse_list_page(hist[k].anchors), Keywords[kw])
AccKeys(k) == UNION {KeysOf(PageBatch(m)) : m \in 1..k}

\* A page after the first without a new matching key is the last one fetched.
StopsOnRepetition ==
    \A k \in 2..Len(hist) :
        KeysOf(PageBatch(k)) \subseteq AccKeys(k - 1)
            => (k = Len(hist) /\ pc = "returned")

\* Every page fetched after page 1 returned what page 1 returned.
EchoesPageOne ==
    /\ pc = "returned"
    /\ Len(hist) >= 1
    /\ hist[1].ok
    /\ \A k \in 2..Len(hist) : hist[k] = hist[1]

\* C6 as claimed: repetition stops the pagination, a site that echoes page 1
\* is fetched exactly twice whatever max_pages is, and at most max_pages
\* pages are fetched.
C6_Original ==
    /\ StopsOnRepetition
    /\ EchoesPageOne => Len(hist) = 2
    /\ Len(hist) <= max_pages

\* C6 as amended: a site that echoes page 1 is fetched exactly twice when
\* page 1 holds at least one offer link and max_pages is at least 2; when
\* page 1 holds no offer link, or max_pages is 1, only page 1 is fetched.
C6_RepetitionTermination ==
    /\ StopsOnRepetition
    /\ EchoesPageOne =>
          Len(hist) = (IF parse_list_page(hist[1].anchors) # <<>> /\ max_pages >= 2
                       THEN 2 ELSE 1)
    /\ Len(hist) <= max_pages

C6_Witness ==
    /\ EchoesPageOne
    /\ Len(hist) = 2
    /\ PageBatch(1) # <<>>
    /\ max_pages > 2

\* C7: Whatever listing fetches fail, the run goes on to the merge and the
\* report and returns 0, the run that accumulated no stub included: a run
\* without stubs does not abort.
C7_AlwaysProceeds == pc = "crashed" => all_rows # <<>>

\* C8: An offer whose detail fetch failed stays in the run, its enrichment
\* fields unset, and the run is not aborted, also when the fetch failed for
\* every offer collected.
C8_GracefulDegradation ==
    (\E i \in 1..Len(all_rows) : IsAbsent(all_rows[i], "employer_name"))
        => pc # "crashed"

\* The merged corpus is on disk, whole.
CorpusPersisted == file_exists /\ file.rows = CsvRows(combined)

\* What C9 says of a run in which both transports failed, and of its end.
BothFailedContinues ==
    /\ (sendgrid = "failed" /\ smtp = "failed")
          => (pc \in {"finish", "done"} /\ CorpusPersisted)
    /\ pc = "done" => rc = "0"

\* C9 as claimed: SMTP is attempted only after a SendGrid attempt that
\* failed, never after one that succeeded, at most one transport delivers,
\* and when both fail the run still returns 0 with the corpus persisted.
C9_Original ==
    /\ smtp # "none" => sendgrid = "failed"
    /\ ~(sendgrid = "ok" /\ smtp = "ok")
    /\ BothFailedContinues

\* C9 as amended: SMTP is attempted only when SendGrid did not deliver: its
\* attempt failed, or no API key is set and it was not attempted at all.
C9_TransportOrder ==
    /\ smtp # "none" =>
          (sendgrid = "failed" \/ (sendgrid = "none" /\ ~env.api_key))
    /\ sendgrid # "none" => env.api_key
    /\ ~(sendgrid = "ok" /\ smtp = "ok")
    /\ BothFailedContinues

C9_Witness ==
    /\ pc = "done" /\ rc = "0"
    /\ sendgrid = "failed" /\ smtp = "failed"
    /\ CorpusPersisted
    /\ Len(file.rows) >= 1

\* The records MASTER_CSV holds (none when there is no file).
DiskRows == IF file_exists THEN file.rows ELSE <<>>

\* C10: Atomic persistence.  If the process dies at any point of a run, the
\* corpus file holds the whole corpus of before the run or the whole merged
\* corpus.
C10_AtomicReplace ==
    pc = "killed" =>
        \/ DiskRows = file_before.rows
        \/ DiskRows = CsvRows(combined)

\* The date the priority chain gives an offer: the structured date if there
\* is one, else the day of the raw published text if there is one, else the
\* day of first_seen, else nothing.
published_resolved(r) ==
    IF r.published_iso >= 0 THEN r.published_iso
    ELSE IF r.published >= 0 THEN r.published
    ELSE IF r.first_seen >= 0 THEN r.first_seen \div TicksPerDay
    ELSE NaNDate

\* Two shown dates are the same day, or both are no date.
SameDate(a, b) == (Unresolved(a) /\ Unresolved(b)) \/ a = b

\* C11: Date-resolver priority chain.  The date shown for every offer of the
\* Delta, in the exported sheet and in the HTML table, is the first of
\* published_iso, the parsed published text and the day of first_seen that
\* is there; an offer without the first two shows its first_seen day.
C11_PriorityChain ==
    /\ export.written =>
          \A i \in 1..Len(export.rows) :
              SameDate(export.rows[i].date, published_resolved(new_only.rows[i]))
    /\ report.built =>
          \A k \in 1..Len(report.rows), i \in 1..Len(new_only.rows) :
              new_only.rows[i].url = report.rows[k].url
                  => SameDate(report.rows[k].date_s, published_resolved(new_only.rows[i]))

\* The export or the notifier has been reached in this run.
Reporting ==
    \/ pc \in {"email", "sendgrid", "smtp", "finish", "done"}
    \/ export.written \/ report.built
    \/ sendgrid # "none" \/ smtp # "none"

\* C12: At-most-once reporting.  The merged corpus is on disk, whole, before
\* the daily export is written and before the notifier is called, and no
\* job_id|url key of the Delta of an earlier run is in the Delta of this
\* run, however the earlier run ended.
C12_AtMostOnce ==
    /\ Reporting => CorpusPersisted
    /\ \A i \in 1..Len(new_only.rows) : MergeKey(new_only.rows[i]) \notin past_delta

\* A run acquired again, merged, saved and reported an offer that was in the
\* Delta of the first run, whose export failed (no offer of that run was
\* enriched, so it raised at export["employer_name"] after the save): the
\* Delta of this run does not hold the offer.
C12_Witness ==
    /\ runs = 2 /\ pc = "done" /\ export.written
    /\ past_delta # {}
    /\ master.rows # <<>>
    /\ \A i \in 1..Len(master.rows) : IsNA(master.rows[i], "employer_name")
    /\ \E j \in 1..Len(df_new.rows) : MergeKey(df_new.rows[j]) \in past_delta
    /\ \A i \in 1..Len(new_only.rows) : MergeKey(new_only.rows[i]) \notin past_delta
====
